---- MODULE Spec2Model ----
(***************************************************************************)
(* Model of the Mini_ZKPs arithmetic-circuit framework:                    *)
(*   src/src/field.rs          FieldElement (modular arithmetic)           *)
(*   src/src/hash_functions.rs HashFunction / PoseidonHash                 *)
(*   src/src/r1cs.rs           Variable, Constraint, R1CS, is_satisfied    *)
(*   src/src/circuit.rs        Gate, Circuit, generate_proof               *)
(*   src/src/merkle_tree.rs    MerkleTree::new, get_proof                  *)
(*                                                                         *)
(* A FieldElement is represented by its `value` (an integer).  A Rust      *)
(* Vec is a TLA+ sequence, so the Rust index i is the TLA+ index i + 1.    *)
(* An Option is a sequence of length 0 (None) or 1 (Some).                 *)
(***************************************************************************)
EXTENDS Integers, Sequences, FiniteSets, TLC

\* ------------------------------------------------------------------ bounds
\* The BN128 scalar field prime of field.rs, scaled down so that every
\* residue, every wrap-around and every negative remainder is enumerated.
MODULUS == 3
\* Raw integers handed to the FieldElement constructors lie in -MaxRaw..MaxRaw.
MaxRaw == 7
\* Longest leaf vector handed to MerkleTree::new.
MaxLeaves == 5
\* Longest input vector and gate list of a Circuit; wire indices named by a
\* gate range over 0..MaxInputs-1, which is out of range for a shorter
\* input vector.
MaxInputs == 3
MaxGates == 2
\* Number of generate_proof calls explored on one Circuit.
MaxCalls == 1
\* R1CS built through its own interface: longest witness and constraint
\* list, and number of is_satisfied calls made on an unmodified R1CS.
MaxVars == 2
MaxConstraints == 2
MaxSatCalls == 2
\* A Circuit compiled more than once: longest input vector, gate list and
\* output vector, and number of generate_proof calls; wire indices named by
\* a gate range over 0..ReuseMaxInputs-1.
ReuseMaxInputs == 2
ReuseMaxGates == 2
ReuseMaxCalls == 2
MaxOutputs == 1

VARIABLES
    \* ---- field.rs: one FieldElement operation and its operands
    fop, fx, fy, fout,
    \* ---- merkle_tree.rs: the tree, the last get_proof call and its result
    tree, mindex, mpath,
    \* ---- circuit.rs: the Circuit's fields
    hash_function, inputs, gates, outputs,
    \* ---- circuit.rs: generate_proof's position and locals, and the file
    pc, gi, r1cs, is_valid, proof_file, err, calls,
    \* ---- history: <<inputs, gates, boolean>> of every generate_proof call
    \* that reached its end, in call order
    proof_log,
    \* ---- r1cs.rs: the booleans returned by the is_satisfied calls made
    \* on the R1CS since it was last modified
    sat_results

fieldVars == <<fop, fx, fy, fout>>
merkleVars == <<tree, mindex, mpath>>
circuitVars == <<hash_function, inputs, gates, outputs>>
proofVars == <<pc, gi, r1cs, is_valid, proof_file, err, calls, proof_log>>
satVars == <<sat_results>>
vars == <<fieldVars, merkleVars, circuitVars, proofVars, satVars>>

\* ------------------------------------------------------------------ field.rs
get_modulus == MODULUS

\* BigInt's `%` truncates toward zero: the remainder has the dividend's sign.
BigIntRem(x, m) == IF x >= 0 THEN x % m ELSE -((-x) % m)

\* Variant without the correction of a negative remainder.
FieldElement_new_NoFix(value) == BigIntRem(value, get_modulus)

FieldElement_new(value) ==
    LET v == BigIntRem(value, get_modulus)
    IN  IF v < 0 THEN v + get_modulus ELSE v

from_i32(v) == FieldElement_new(v)

FieldElement_add(a, b) == FieldElement_new(a + b)
FieldElement_sub(a, b) == FieldElement_new(a - b)
FieldElement_mul(a, b) == FieldElement_new(a * b)

FieldElements == 0 .. (MODULUS - 1)
RawInts == (0 - MaxRaw) .. MaxRaw

\* ------------------------------------------------------------------ hash_functions.rs
\* BigInt -> Fr: the little-endian bytes are loaded into a 32-byte repr and
\* Fr::from_repr rejects a repr that is not below the field order, in which
\* case unwrap_or substitutes Fr::zero().
ToFr(v) == IF v < MODULUS THEN v ELSE 0

\* The Poseidon permutation of the poseidon_rs crate on two Fr inputs: an
\* external deterministic map Fr x Fr -> Fr.  It is represented by a fixed
\* map that is neither commutative nor additive.
Poseidon(a, b) == (2 * a + b * b + a * b + 1) % MODULUS

PoseidonHash_hash(a, b) == FieldElement_new(Poseidon(ToFr(a), ToFr(b)))

\* ------------------------------------------------------------------ merkle_tree.rs
\* Variant pairing an odd tail with the first element of the level.
RECURSIVE NextLevelFrom_DupFirst(_, _)
NextLevelFrom_DupFirst(current_level, i) ==
    IF i >= Len(current_level) THEN <<>>
    ELSE LET left == current_level[i + 1]
             right == IF i + 1 < Len(current_level)
                      THEN current_level[i + 2]
                      ELSE current_level[1]
         IN  <<PoseidonHash_hash(left, right)>>
                 \o NextLevelFrom_DupFirst(current_level, i + 2)

\* The inner `for i in (0..len).step_by(2)` loop, from Rust index i on.
RECURSIVE NextLevelFrom(_, _)
NextLevelFrom(current_level, i) ==
    IF i >= Len(current_level) THEN <<>>
    ELSE LET left == current_level[i + 1]
             right == IF i + 1 < Len(current_level)
                      THEN current_level[i + 2]
                      ELSE current_level[i + 1]
         IN  <<PoseidonHash_hash(left, right)>> \o NextLevelFrom(current_level, i + 2)

NextLevel(current_level) == NextLevelFrom(current_level, 0)

\* The `while current_level.len() > 1` loop.
RECURSIVE BuildLevels(_, _)
BuildLevels(levels, current_level) ==
    IF Len(current_level) > 1
    THEN LET next_level == NextLevel(current_level)
         IN  BuildLevels(Append(levels, next_level), next_level)
    ELSE levels

NoTree == [state |-> "none", leaves |-> <<>>, levels |-> <<>>, root |-> 0]

\* MerkleTree::new; `current_level[0]` panics on an empty leaf vector.
MerkleTree_new(leaves) ==
    IF Len(leaves) = 0
    THEN [state |-> "panicked", leaves |-> leaves, levels |-> <<>>, root |-> 0]
    ELSE LET levels == BuildLevels(<<leaves>>, leaves)
         IN  [state |-> "built", leaves |-> leaves, levels |-> levels,
              root |-> levels[Len(levels)][1]]

\* Variant that takes the right neighbour whatever the parity of the index.
Sibling_AlwaysRight(level, index) ==
    IF index + 1 < Len(level) THEN level[index + 2] ELSE level[index + 1]

\* Sibling chosen by get_proof at one level, for the Rust index `index`.
Sibling(level, index) ==
    IF index % 2 = 0
    THEN IF index + 1 < Len(level) THEN level[index + 2] ELSE level[index + 1]
    ELSE level[index]

\* Variant returning the siblings in root-to-leaf order.
RECURSIVE GetProofFrom_RootFirst(_, _, _, _)
GetProofFrom_RootFirst(levels, l, index, path) ==
    IF l > Len(levels) - 1 THEN path
    ELSE GetProofFrom_RootFirst(levels, l + 1, index \div 2,
                                <<Sibling(levels[l], index)>> \o path)

\* The loop of get_proof over levels[0 .. len-1], from level l (1-based) on.
RECURSIVE GetProofFrom(_, _, _, _)
GetProofFrom(levels, l, index, path) ==
    IF l > Len(levels) - 1 THEN path
    ELSE GetProofFrom(levels, l + 1, index \div 2,
                      Append(path, Sibling(levels[l], index)))

get_proof(t, index) == GetProofFrom(t.levels, 1, index, <<>>)

\* ------------------------------------------------------------------ r1cs.rs
Variable(index, value) == [index |-> index, value |-> value]

R1CS_new == [variables |-> <<>>, constraints |-> <<>>]

\* A term (Variable, coefficient) is the pair <<variable, coeff>>.
add_constraint(r, left, right, output, operation) ==
    [r EXCEPT !.constraints =
        Append(@, [left |-> left, right |-> right, output |-> output,
                   operation |-> operation])]

\* `.iter().map(|(var, coeff)| &var.value * coeff).sum()` over BigInt: the
\* value read is the one stored in the term's own Variable, and neither the
\* products nor the sum are reduced.
RECURSIVE SumTerms(_)
SumTerms(terms) ==
    IF terms = <<>> THEN 0
    ELSE terms[1][1].value * terms[1][2] + SumTerms(Tail(terms))

\* The closure generate_proof hands to is_satisfied: `expect` panics when
\* the Circuit holds no hash function.
HashClosure(hf, a, b) ==
    IF hf = "None" THEN [panic |-> TRUE, value |-> 0]
    ELSE [panic |-> FALSE, value |-> PoseidonHash_hash(a, b)]

\* One iteration of the loop of is_satisfied: "pass", "fail" or "panic".
CheckConstraint(constraint, hf) ==
    LET left_val == SumTerms(constraint.left)
        right_val == SumTerms(constraint.right)
        output_val == SumTerms(constraint.output)
    IN  CASE constraint.operation = "Add" ->
                IF left_val + right_val # output_val THEN "fail" ELSE "pass"
          [] constraint.operation = "Mul" ->
                IF left_val * right_val # output_val THEN "fail" ELSE "pass"
          [] constraint.operation = "Hash" ->
                LET computed_hash == HashClosure(hf, left_val, right_val)
                IN  IF computed_hash.panic THEN "panic"
                    ELSE IF computed_hash.value # output_val THEN "fail" ELSE "pass"

\* The loop of is_satisfied from constraint i (1-based) on, in insertion
\* order, returning at the first constraint that does not pass.
RECURSIVE IsSatisfiedFrom(_, _, _)
IsSatisfiedFrom(constraints, i, hf) ==
    IF i > Len(constraints) THEN [panic |-> FALSE, value |-> TRUE]
    ELSE LET c == CheckConstraint(constraints[i], hf)
         IN  CASE c = "panic" -> [panic |-> TRUE, value |-> FALSE]
               [] c = "fail" -> [panic |-> FALSE, value |-> FALSE]
               [] OTHER -> IsSatisfiedFrom(constraints, i + 1, hf)

is_satisfied(r, hf) == IsSatisfiedFrom(r.constraints, 1, hf)

\* R1CS::add_variable
add_variable(r, variable) == [r EXCEPT !.variables = Append(@, variable)]

\* Variant in which the call refreshes, in place, the Variable stored in
\* every term from the witness slot of the same index.
RefreshTerms(r, terms) ==
    [j \in 1 .. Len(terms) |->
        <<[terms[j][1] EXCEPT !.value = r.variables[terms[j][1].index + 1].value],
          terms[j][2]>>]

R1CS_after_is_satisfied_Refresh(r) ==
    [r EXCEPT !.constraints =
        [i \in 1 .. Len(r.constraints) |->
            [r.constraints[i] EXCEPT
                !.left = RefreshTerms(r, r.constraints[i].left),
                !.right = RefreshTerms(r, r.constraints[i].right),
                !.output = RefreshTerms(r, r.constraints[i].output)]]]

\* is_satisfied takes `&self` and only iterates over the constraints: the
\* R1CS after the call is the R1CS it was called on.
R1CS_after_is_satisfied(r) == r

\* ------------------------------------------------------------------ circuit.rs
Gate(op, a, b, out) == [op |-> op, a |-> a, b |-> b, out |-> out]

WireIdx == 0 .. (MaxInputs - 1)
ReuseWireIdx == 0 .. (ReuseMaxInputs - 1)
GateOps == {"Add", "Mul", "Hash"}

\* r1cs.variables = inputs.iter().enumerate().map(Variable { index, value })
VariablesOf(ins) == [i \in 1 .. Len(ins) |-> Variable(i - 1, ins[i])]

\* Outcome of one match arm: the R1CS after it and the panic it ended in
\* ("" when it ran to its end).
Arm(r, e) == [r1cs |-> r, err |-> e]

\* vec![(r1cs.variables[*w].clone(), FieldElement::from_i32(1))]
TermOf(r, w) == <<  <<r.variables[w + 1], from_i32(1)>>  >>

\* Gate::Add and Gate::Mul arms: the three indexings are evaluated before
\* add_constraint is called, and an index outside r1cs.variables panics.
CheckOnlyArm(r, g, operation) ==
    LET n == Len(r.variables)
    IN  IF g.a >= n \/ g.b >= n \/ g.out >= n THEN Arm(r, "index")
        ELSE Arm(add_constraint(r, TermOf(r, g.a), TermOf(r, g.b),
                                TermOf(r, g.out), operation), "")

AddArm(r, g) == CheckOnlyArm(r, g, "Add")
MulArm(r, g) == CheckOnlyArm(r, g, "Mul")

\* Variant that falls back to field addition when no hash function is
\* configured.
HashArm_AddFallback(r, ins, hf, g) ==
    IF g.a >= Len(ins) \/ g.b >= Len(ins) THEN Arm(r, "index")
    ELSE LET computed_hash == IF hf = "None"
                              THEN FieldElement_add(ins[g.a + 1], ins[g.b + 1])
                              ELSE PoseidonHash_hash(ins[g.a + 1], ins[g.b + 1])
         IN  IF g.out >= Len(r.variables) THEN Arm(r, "index")
             ELSE LET w == [r EXCEPT !.variables[g.out + 1].value = computed_hash]
                  IN  Arm(add_constraint(w, TermOf(w, g.a), TermOf(w, g.b),
                                         TermOf(w, g.out), "Hash"), "")

\* Variant whose `else` branch extends the witness by one slot holding the
\* hash before the unguarded write.
HashArm_ExtendFirst(r, ins, hf, g) ==
    IF g.a >= Len(ins) \/ g.b >= Len(ins) THEN Arm(r, "index")
    ELSE IF hf = "None" THEN Arm(r, "config")
    ELSE LET computed_hash == PoseidonHash_hash(ins[g.a + 1], ins[g.b + 1])
             x == IF g.out >= Len(r.variables)
                  THEN [r EXCEPT !.variables =
                            Append(@, Variable(Len(r.variables), computed_hash))]
                  ELSE r
         IN  IF g.out >= Len(x.variables) THEN Arm(x, "index")
             ELSE LET w == [x EXCEPT !.variables[g.out + 1].value = computed_hash]
                  IN  Arm(add_constraint(w, TermOf(w, g.a), TermOf(w, g.b),
                                         TermOf(w, g.out), "Hash"), "")

\* Variant that leaves a slot alone once an earlier Hash gate has written it
\* (first write wins).
HashArm_FirstWriteWins(r, ins, hf, g) ==
    IF g.a >= Len(ins) \/ g.b >= Len(ins) THEN Arm(r, "index")
    ELSE IF hf = "None" THEN Arm(r, "config")
    ELSE LET computed_hash == PoseidonHash_hash(ins[g.a + 1], ins[g.b + 1])
             written == \E i \in 1 .. Len(r.constraints) :
                           /\ r.constraints[i].operation = "Hash"
                           /\ r.constraints[i].output[1][1].index = g.out
         IN  IF g.out >= Len(r.variables) THEN Arm(r, "index")
             ELSE LET w == IF written THEN r
                           ELSE [r EXCEPT !.variables[g.out + 1].value = computed_hash]
                  IN  Arm(add_constraint(w, TermOf(w, g.a), TermOf(w, g.b),
                                         TermOf(w, g.out), "Hash"), "")

\* Gate::Hash arm.  `self.inputs[*a]`, `self.inputs[*b]` are indexed first,
\* then apply_hash expects the hash function; the hash is computed from the
\* Circuit's inputs.  The guarded write is followed by the unguarded write
\* `r1cs.variables[*output].value = computed_hash`, which panics when
\* `output` is out of range; the terms are cloned after the write.
HashArm(r, ins, hf, g) ==
    IF g.a >= Len(ins) \/ g.b >= Len(ins) THEN Arm(r, "index")
    ELSE IF hf = "None" THEN Arm(r, "config")
    ELSE LET computed_hash == PoseidonHash_hash(ins[g.a + 1], ins[g.b + 1])
         IN  IF g.out >= Len(r.variables) THEN Arm(r, "index")
             ELSE LET w == [r EXCEPT !.variables[g.out + 1].value = computed_hash]
                  IN  Arm(add_constraint(w, TermOf(w, g.a), TermOf(w, g.b),
                                         TermOf(w, g.out), "Hash"), "")

\* ------------------------------------------------------------------ states
FieldIdle == fop = "none" /\ fx = 0 /\ fy = 0 /\ fout = 0
MerkleIdle == tree = NoTree /\ mindex = 0 /\ mpath = <<>>
SatIdle == sat_results = <<>>
CircuitIdle ==
    /\ hash_function = "None" /\ inputs = <<>> /\ gates = <<>> /\ outputs = <<>>
    /\ pc = "idle" /\ gi = 0 /\ r1cs = R1CS_new /\ is_valid = <<>>
    /\ proof_file = <<>> /\ err = "" /\ calls = 0 /\ proof_log = <<>>

\* ------------------------------------------------------------------ Circuit
\* Circuit::new(hash_function): no inputs, no gates, nothing compiled yet
\* and no proof file on disk.
Circuit_new(hf) ==
    /\ hash_function = hf /\ inputs = <<>> /\ gates = <<>> /\ outputs = <<>>
    /\ pc = "idle" /\ gi = 0 /\ r1cs = R1CS_new /\ is_valid = <<>>
    /\ proof_file = <<>> /\ err = "" /\ calls = 0 /\ proof_log = <<>>

Init ==
    /\ \E hf \in {"None", "Poseidon"} : Circuit_new(hf)
    /\ FieldIdle /\ MerkleIdle /\ SatIdle

add_input ==
    /\ pc = "idle" /\ calls < MaxCalls /\ Len(inputs) < MaxInputs
    /\ \E input \in FieldElements : inputs' = Append(inputs, input)
    /\ UNCHANGED <<hash_function, gates, outputs, proofVars, fieldVars, merkleVars, satVars>>

add_gate ==
    /\ pc = "idle" /\ calls < MaxCalls /\ Len(gates) < MaxGates
    /\ \E op \in GateOps, a \in WireIdx, b \in WireIdx, out \in WireIdx :
          gates' = Append(gates, Gate(op, a, b, out))
    /\ UNCHANGED <<hash_function, inputs, outputs, proofVars, fieldVars, merkleVars, satVars>>

\* generate_proof, entry: a fresh R1CS whose variables are the inputs.
generate_proof_begin ==
    /\ pc = "idle" /\ calls < MaxCalls
    /\ pc' = "compiling" /\ gi' = 0 /\ calls' = calls + 1
    /\ r1cs' = [R1CS_new EXCEPT !.variables = VariablesOf(inputs)]
    /\ is_valid' = <<>> /\ err' = ""
    /\ UNCHANGED <<proof_file, proof_log, circuitVars, fieldVars, merkleVars, satVars>>

\* Variant of the loop iteration that also stores the witness values of the
\* arm back into the Circuit's inputs.
GateStep_WriteInputs(arm) ==
    /\ r1cs' = arm.r1cs
    /\ err' = arm.err
    /\ IF arm.err = "" THEN pc' = pc /\ gi' = gi + 1
                       ELSE pc' = "panicked" /\ gi' = gi
    /\ inputs' = [i \in 1 .. Len(inputs) |-> arm.r1cs.variables[i].value]
    /\ UNCHANGED <<is_valid, proof_file, calls, proof_log, hash_function,
                 gates, outputs, fieldVars, merkleVars, satVars>>

\* One iteration of `for gate in &self.gates`: the arm either runs to its
\* end or panics, which ends the process.
GateStep(arm) ==
    /\ r1cs' = arm.r1cs
    /\ err' = arm.err
    /\ IF arm.err = "" THEN pc' = pc /\ gi' = gi + 1
                       ELSE pc' = "panicked" /\ gi' = gi
    /\ UNCHANGED <<is_valid, proof_file, calls, proof_log, circuitVars,
                 fieldVars, merkleVars, satVars>>

compile_Add ==
    /\ pc = "compiling" /\ gi < Len(gates) /\ gates[gi + 1].op = "Add"
    /\ GateStep(AddArm(r1cs, gates[gi + 1]))

compile_Mul ==
    /\ pc = "compiling" /\ gi < Len(gates) /\ gates[gi + 1].op = "Mul"
    /\ GateStep(MulArm(r1cs, gates[gi + 1]))

compile_Hash ==
    /\ pc = "compiling" /\ gi < Len(gates) /\ gates[gi + 1].op = "Hash"
    /\ GateStep(HashArm(r1cs, inputs, hash_function, gates[gi + 1]))

\* After the loop: is_satisfied, then the boolean is serialized and written
\* to the proof file.
generate_proof_validate ==
    /\ pc = "compiling" /\ gi = Len(gates)
    /\ LET res == is_satisfied(r1cs, hash_function)
       IN  IF res.panic
           THEN /\ pc' = "panicked" /\ err' = "config"
                /\ UNCHANGED <<is_valid, proof_file, proof_log>>
           ELSE /\ pc' = "validated" /\ err' = ""
                /\ is_valid' = <<res.value>>
                /\ proof_file' = <<res.value>>
                /\ proof_log' = Append(proof_log, <<inputs, gates, res.value>>)
    /\ UNCHANGED <<gi, r1cs, calls, circuitVars, fieldVars, merkleVars, satVars>>

\* generate_proof returns: its locals are dropped, the file stays.
generate_proof_return ==
    /\ pc = "validated"
    /\ pc' = "idle" /\ gi' = 0 /\ r1cs' = R1CS_new /\ is_valid' = <<>>
    /\ UNCHANGED <<proof_file, err, calls, proof_log, circuitVars,
                 fieldVars, merkleVars, satVars>>

Next ==
    \/ add_input
    \/ add_gate
    \/ generate_proof_begin
    \/ compile_Add
    \/ compile_Mul
    \/ compile_Hash
    \/ generate_proof_validate
    \/ generate_proof_return

Spec == Init /\ [][Next]_vars

\* ------------------------------------------------------------------ Circuit, reused
\* The same Circuit driven through several generate_proof calls, with
\* add_input / add_gate / add_output calls before and between them.
reuse_add_input ==
    /\ pc = "idle" /\ calls < ReuseMaxCalls /\ Len(inputs) < ReuseMaxInputs
    /\ \E input \in FieldElements : inputs' = Append(inputs, input)
    /\ UNCHANGED <<hash_function, gates, outputs, proofVars, fieldVars, merkleVars, satVars>>

reuse_add_gate ==
    /\ pc = "idle" /\ calls < ReuseMaxCalls /\ Len(gates) < ReuseMaxGates
    /\ \E op \in GateOps, a \in ReuseWireIdx, b \in ReuseWireIdx, out \in ReuseWireIdx :
          gates' = Append(gates, Gate(op, a, b, out))
    /\ UNCHANGED <<hash_function, inputs, outputs, proofVars, fieldVars, merkleVars, satVars>>

\* self.outputs.push(output)
add_output ==
    /\ pc = "idle" /\ calls < ReuseMaxCalls /\ Len(outputs) < MaxOutputs
    /\ \E output \in FieldElements : outputs' = Append(outputs, output)
    /\ UNCHANGED <<hash_function, inputs, gates, proofVars, fieldVars, merkleVars, satVars>>

reuse_generate_proof_begin ==
    /\ pc = "idle" /\ calls < ReuseMaxCalls
    /\ pc' = "compiling" /\ gi' = 0 /\ calls' = calls + 1
    /\ r1cs' = [R1CS_new EXCEPT !.variables = VariablesOf(inputs)]
    /\ is_valid' = <<>> /\ err' = ""
    /\ UNCHANGED <<proof_file, proof_log, circuitVars, fieldVars, merkleVars, satVars>>

NextReuse ==
    \/ reuse_add_input
    \/ reuse_add_gate
    \/ add_output
    \/ reuse_generate_proof_begin
    \/ compile_Add
    \/ compile_Mul
    \/ compile_Hash
    \/ generate_proof_validate
    \/ generate_proof_return

SpecReuse == Init /\ [][NextReuse]_vars

\* ------------------------------------------------------------------ FieldElement
InitField ==
    /\ fop = "none" /\ fx \in RawInts /\ fy \in RawInts /\ fout = 0
    /\ MerkleIdle /\ CircuitIdle /\ SatIdle

FieldOp(name, result) ==
    /\ fop = "none"
    /\ fop' = name /\ fout' = result
    /\ UNCHANGED <<fx, fy, merkleVars, circuitVars, proofVars, satVars>>

field_new == FieldOp("new", FieldElement_new(fx))

field_from_i32 == FieldOp("from_i32", from_i32(fx))

\* The operands of add, sub and mul are FieldElements, which the program
\* only ever obtains from FieldElement::new.
field_add ==
    /\ fx \in FieldElements /\ fy \in FieldElements
    /\ FieldOp("add", FieldElement_add(fx, fy))

field_sub ==
    /\ fx \in FieldElements /\ fy \in FieldElements
    /\ FieldOp("sub", FieldElement_sub(fx, fy))

field_mul ==
    /\ fx \in FieldElements /\ fy \in FieldElements
    /\ FieldOp("mul", FieldElement_mul(fx, fy))

NextField ==
    \/ field_new
    \/ field_from_i32
    \/ field_add
    \/ field_sub
    \/ field_mul

SpecField == InitField /\ [][NextField]_vars

\* ------------------------------------------------------------------ MerkleTree
LeafVecs == UNION {[1 .. n -> FieldElements] : n \in 0 .. MaxLeaves}

InitMerkle == MerkleIdle /\ FieldIdle /\ CircuitIdle /\ SatIdle

merkle_new ==
    /\ tree.state = "none"
    /\ \E leaves \in LeafVecs : tree' = MerkleTree_new(leaves)
    /\ UNCHANGED <<mindex, mpath, fieldVars, circuitVars, proofVars, satVars>>

\* get_proof for a leaf index of the tree; the returned path is Some(path).
merkle_get_proof ==
    /\ tree.state = "built"
    /\ \E index \in 0 .. (Len(tree.leaves) - 1) :
          /\ mindex' = index
          /\ mpath' = <<get_proof(tree, index)>>
    /\ UNCHANGED <<tree, fieldVars, circuitVars, proofVars, satVars>>

NextMerkle ==
    \/ merkle_new
    \/ merkle_get_proof

SpecMerkle == InitMerkle /\ [][NextMerkle]_vars

\* ------------------------------------------------------------------ R1CS
\* R1CS::new(), used through its own interface, with the hash closure of a
\* Circuit that holds hash function hf.
InitR1CS ==
    /\ \E hf \in {"None", "Poseidon"} : Circuit_new(hf)
    /\ FieldIdle /\ MerkleIdle /\ SatIdle

R1CSFrame ==
    UNCHANGED <<gi, is_valid, proof_file, calls, proof_log, circuitVars,
                fieldVars, merkleVars>>

r1cs_add_variable ==
    /\ pc = "idle" /\ Len(r1cs.variables) < MaxVars
    /\ \E value \in FieldElements :
          r1cs' = add_variable(r1cs, Variable(Len(r1cs.variables), value))
    /\ sat_results' = <<>>
    /\ UNCHANGED <<pc, err>> /\ R1CSFrame

\* A write to the public field of a witness slot, as in
\* `r1cs.variables[*output].value = computed_hash`.
r1cs_set_value ==
    /\ pc = "idle"
    /\ \E i \in 1 .. Len(r1cs.variables), value \in FieldElements :
          /\ value # r1cs.variables[i].value
          /\ r1cs' = [r1cs EXCEPT !.variables[i].value = value]
    /\ sat_results' = <<>>
    /\ UNCHANGED <<pc, err>> /\ R1CSFrame

\* add_constraint with one-term sides cloned from the witness, as the
\* callers of this repository build them.
r1cs_add_constraint ==
    /\ pc = "idle" /\ Len(r1cs.constraints) < MaxConstraints
    /\ \E op \in GateOps :
       \E a \in 0 .. (Len(r1cs.variables) - 1) :
       \E b \in 0 .. (Len(r1cs.variables) - 1) :
       \E out \in 0 .. (Len(r1cs.variables) - 1) :
          r1cs' = add_constraint(r1cs, TermOf(r1cs, a), TermOf(r1cs, b),
                                 TermOf(r1cs, out), op)
    /\ sat_results' = <<>>
    /\ UNCHANGED <<pc, err>> /\ R1CSFrame

\* One call of is_satisfied with the Circuit's hash closure; the closure's
\* `expect` panics on a Hash constraint when there is no hash function.
r1cs_is_satisfied ==
    /\ pc = "idle" /\ Len(sat_results) < MaxSatCalls
    /\ LET res == is_satisfied(r1cs, hash_function)
       IN  IF res.panic
           THEN /\ pc' = "panicked" /\ err' = "config"
                /\ UNCHANGED <<r1cs, sat_results>>
           ELSE /\ sat_results' = Append(sat_results, res.value)
                /\ r1cs' = R1CS_after_is_satisfied(r1cs)
                /\ UNCHANGED <<pc, err>>
    /\ R1CSFrame

NextR1CS ==
    \/ r1cs_add_variable
    \/ r1cs_set_value
    \/ r1cs_add_constraint
    \/ r1cs_is_satisfied

SpecR1CS == InitR1CS /\ [][NextR1CS]_vars

\* ================================================================== claims
\* r is the canonical representative of the integer x: it lies in
\* [0, MODULUS) and differs from x by a multiple of MODULUS.
IsResidueOf(r, x) ==
    /\ r \in 0 .. (MODULUS - 1)
    /\ \E k \in (0 - (MaxRaw + MODULUS)) .. (MaxRaw + MODULUS) : x = r + k * MODULUS

\* C8: every FieldElement produced by new, from_i32, add, sub or mul holds
\* the canonical representative of the exact integer result, also when the
\* raw integer is negative or at least MODULUS; new(x) equals
\* new(x + MODULUS), and add and mul agree with (a.value op b.value) mod
\* MODULUS.
Thm_C8_Canonical ==
    /\ fop = "new" =>
          /\ IsResidueOf(fout, fx)
          /\ FieldElement_new(fx + MODULUS) = fout
    /\ fop = "from_i32" => IsResidueOf(fout, fx)
    /\ fop = "add" =>
          /\ IsResidueOf(fout, fx + fy)
          /\ fout = (fx + fy) % MODULUS
    /\ fop = "sub" => IsResidueOf(fout, fx - fy)
    /\ fop = "mul" =>
          /\ IsResidueOf(fout, fx * fy)
          /\ fout = (fx * fy) % MODULUS

\* C8 witness: a subtraction whose raw result is negative has been reduced.
Wit_C8_NegativeSub == fop = "sub" /\ fx < fy /\ fout = MODULUS + fx - fy

\* Recomputation of the root from a leaf and its path: hash(sibling,
\* current) at an odd index, hash(current, sibling) at an even one, then the
\* index is halved.
RECURSIVE FoldPath(_, _, _)
FoldPath(current, index, path) ==
    IF path = <<>> THEN current
    ELSE FoldPath(IF index % 2 = 1
                  THEN PoseidonHash_hash(path[1], current)
                  ELSE PoseidonHash_hash(current, path[1]),
                  index \div 2, Tail(path))

\* C5: Merkle round trip: folding the path returned by get_proof(i) from
\* leaf i, with the side given by the parity of the index at each level,
\* yields exactly tree.root.
Thm_C5_RoundTrip ==
    mpath # <<>> =>
        FoldPath(tree.leaves[mindex + 1], mindex, mpath[1]) = tree.root

\* C5 witness: a path was returned for the odd tail of a 3-leaf tree, whose
\* first sibling is the leaf itself.
Wit_C5_OddTail ==
    /\ mpath # <<>> /\ Len(tree.leaves) = 3 /\ mindex = 2
    /\ Len(mpath[1]) = 2 /\ tree.leaves[1] # tree.leaves[3]

\* C6: levels[0] is the leaf vector; each next level has length
\* ceil(len/2) and holds hash(left, right) of adjacent pairs, an odd tail
\* being paired with itself; the last level has length 1 and root is its
\* element; a one-leaf tree has root = leaf and no level beyond level 0.
Thm_C6_Levels ==
    tree.state = "built" =>
        LET levels == tree.levels
        IN  /\ Len(levels) >= 1
            /\ levels[1] = tree.leaves
            /\ \A l \in 1 .. (Len(levels) - 1) :
                  /\ Len(levels[l + 1]) = (Len(levels[l]) + 1) \div 2
                  /\ \A j \in 0 .. (Len(levels[l + 1]) - 1) :
                        levels[l + 1][j + 1] =
                            IF 2 * j + 1 < Len(levels[l])
                            THEN PoseidonHash_hash(levels[l][2 * j + 1], levels[l][2 * j + 2])
                            ELSE PoseidonHash_hash(levels[l][2 * j + 1], levels[l][2 * j + 1])
            /\ Len(levels[Len(levels)]) = 1
            /\ tree.root = levels[Len(levels)][1]
            /\ Len(tree.leaves) = 1 =>
                  /\ Len(levels) = 1
                  /\ tree.root = tree.leaves[1]

\* C6 witness: a 5-leaf tree, whose levels 0 and 1 both have an odd tail.
Wit_C6_OddLevels ==
    /\ tree.state = "built" /\ Len(tree.leaves) = 5
    /\ Len(tree.levels) = 4 /\ Len(tree.levels[2]) = 3

\* C7: get_proof returns one sibling per level below the root, in
\* leaf-to-root order; at level l the index is index / 2^l and the sibling
\* is its right neighbour (itself when there is none) for an even index and
\* its left neighbour for an odd one; a one-leaf tree has an empty path and
\* get_proof(2) of [A,B,C] is [C, hash(A,B)].
Thm_C7_Siblings ==
    mpath # <<>> =>
        LET path == mpath[1]
            levels == tree.levels
        IN  /\ Len(path) = Len(levels) - 1
            /\ \A l \in 1 .. Len(path) :
                  LET idx == mindex \div (2 ^ (l - 1))
                      level == levels[l]
                  IN  path[l] =
                        IF idx % 2 = 0
                        THEN IF idx + 1 < Len(level) THEN level[idx + 2]
                                                     ELSE level[idx + 1]
                        ELSE level[idx]
            /\ Len(tree.leaves) = 1 => path = <<>>
            /\ (Len(tree.leaves) = 3 /\ mindex = 2) =>
                  path = <<tree.leaves[3],
                           PoseidonHash_hash(tree.leaves[1], tree.leaves[2])>>

\* C7 witness: get_proof(2) on a 3-leaf tree whose two siblings differ.
Wit_C7_ThreeLeaves ==
    /\ mpath # <<>> /\ Len(tree.leaves) = 3 /\ mindex = 2
    /\ mpath[1][1] = tree.leaves[3] /\ mpath[1][1] # mpath[1][2]

\* ------------------------------------------------------------------ circuit claims
\* The generate_proof call has ended: it returned a boolean or it panicked.
Ended == pc \in {"validated", "panicked"}

HasHashGate == \E i \in 1 .. Len(gates) : gates[i].op = "Hash"

\* Every wire index of gate g lies inside a witness vector of length n.
GateValid(g, n) == g.a < n /\ g.b < n /\ g.out < n

\* Sum of value * coefficient over the terms, computed in the field.
RECURSIVE FieldSum(_)
FieldSum(terms) ==
    IF terms = <<>> THEN 0
    ELSE (terms[1][1].value * terms[1][2] + FieldSum(Tail(terms))) % MODULUS

\* The per-operation rule of a constraint, computed in the field.
FieldPass(c) ==
    LET L == FieldSum(c.left)
        R == FieldSum(c.right)
        O == FieldSum(c.output)
    IN  CASE c.operation = "Add" -> (L + R) % MODULUS = O
          [] c.operation = "Mul" -> (L * R) % MODULUS = O
          [] c.operation = "Hash" -> PoseidonHash_hash(L, R) = O

\* C1: is_satisfied returns true exactly when every constraint passes its
\* per-operation rule computed in the field (values reduced modulo
\* MODULUS), also when a sum or product reaches or exceeds MODULUS.
Cex_C1_FieldRule ==
    pc = "validated" =>
        (is_valid[1] <=>
            \A i \in 1 .. Len(r1cs.constraints) : FieldPass(r1cs.constraints[i]))

\* C2: for a circuit whose only gate is a check-only gate G(a, b, out), G in
\* {Add, Mul}, over valid indices, the compiled boolean is true exactly when
\* inputs[out] equals inputs[a] G inputs[b] in the field.
Cex_C2_CheckOnlyGate ==
    (pc = "validated" /\ Len(gates) = 1 /\ gates[1].op \in {"Add", "Mul"}) =>
        LET g == gates[1]
            x == inputs[g.a + 1]
            y == inputs[g.b + 1]
            expected == IF g.op = "Add" THEN (x + y) % MODULUS
                                        ELSE (x * y) % MODULUS
        IN  is_valid[1] <=> (inputs[g.out + 1] = expected)

\* C3: after compiling with a hash capability, for every gate Hash(a, b, k),
\* whatever gates precede it, variables[k].value equals
\* hash(variables[a].value, variables[b].value) and the constraint emitted
\* for the gate is accepted by is_satisfied.
Cex_C3_HashWitness ==
    (pc = "validated" /\ hash_function = "Poseidon") =>
        \A i \in 1 .. Len(gates) :
            gates[i].op = "Hash" =>
                LET g == gates[i]
                IN  /\ r1cs.variables[g.out + 1].value =
                          PoseidonHash_hash(r1cs.variables[g.a + 1].value,
                                            r1cs.variables[g.b + 1].value)
                    /\ CheckConstraint(r1cs.constraints[i], hash_function) = "pass"

\* The terms of a constraint, over its three sides.
TermsOf(c) ==
    {c.left[j] : j \in 1 .. Len(c.left)}
        \cup {c.right[j] : j \in 1 .. Len(c.right)}
        \cup {c.output[j] : j \in 1 .. Len(c.output)}

\* C4: when is_satisfied evaluates the compiled R1CS, every Variable
\* referenced by a term of any constraint carries the same value as
\* r1cs.variables at that Variable's index, for every gate list.
Cex_C4_CurrentValues ==
    pc = "validated" =>
        \A i \in 1 .. Len(r1cs.constraints) :
            \A t \in TermsOf(r1cs.constraints[i]) :
                t[1].value = r1cs.variables[t[1].index + 1].value

C9State ==
    (hash_function = "None" /\ Ended) =>
        LET n == Len(inputs)
        IN  IF HasHashGate
            THEN /\ pc = "panicked" /\ is_valid = <<>> /\ gi < Len(gates)
                 /\ \A i \in 1 .. gi :
                       gates[i].op # "Hash" /\ GateValid(gates[i], n)
                 /\ LET g == gates[gi + 1]
                    IN  IF g.op = "Hash" /\ g.a < n /\ g.b < n
                        THEN err = "config"
                        ELSE err = "index" /\ ~GateValid(g, n)
            ELSE (\A i \in 1 .. Len(gates) : GateValid(gates[i], n)) =>
                    /\ pc = "validated"
                    /\ is_valid \in {<<TRUE>>, <<FALSE>>}
                    /\ proof_file = is_valid

C9Step == (hash_function = "None" /\ HasHashGate) => proof_file' = proof_file

C10Step ==
    (pc = "compiling" /\ gi < Len(gates)
        /\ ~GateValid(gates[gi + 1], Len(r1cs.variables))) =>
            /\ pc' = "panicked" /\ err' \in {"index", "config"}
            /\ gi' = gi /\ r1cs' = r1cs
            /\ is_valid' = <<>> /\ proof_file' = proof_file

\* C10: a gate naming a wire index outside the witness vector makes the
\* compilation abort with an error at that gate: the step leaves every
\* witness value and the constraint list as they were, and produces neither
\* a boolean nor a proof file; nothing runs after the abort.
Thm_C10_AbortBeforeMutation ==
    /\ [][C10Step]_vars
    /\ [][pc # "panicked"]_vars
    /\ [](pc = "panicked" => is_valid = <<>>)

\* C10 witness: with a hash capability, a Hash gate whose a and b are in
\* range and whose out is not has panicked after an earlier Hash gate wrote
\* the witness.
Wit_C10_HashOutOfRange ==
    /\ pc = "panicked" /\ err = "index" /\ hash_function = "Poseidon"
    /\ gi = 1 /\ gates[1].op = "Hash" /\ gates[2].op = "Hash"
    /\ gates[2].a < Len(inputs) /\ gates[2].b < Len(inputs)
    /\ gates[2].out >= Len(inputs)
    /\ Len(r1cs.constraints) = 1

\* ------------------------------------------------------------------ R1CS claims
\* Some term of some constraint holds a value other than the witness slot
\* of its index.
HasStaleTerm(r) ==
    \E i \in 1 .. Len(r.constraints) :
        \E t \in TermsOf(r.constraints[i]) :
            t[1].value # r.variables[t[1].index + 1].value

C11Step ==
    (Len(sat_results') = Len(sat_results) + 1) =>
        /\ r1cs'.variables = r1cs.variables
        /\ r1cs'.constraints = r1cs.constraints

\* C11: is_satisfied is read-only and re-invocable: a call leaves variables
\* and constraints unchanged, and successive calls on the same unmodified
\* R1CS with the same hash function return the same boolean.
Thm_C11_ReadOnly ==
    /\ [][C11Step]_vars
    /\ [](\A i \in 1 .. Len(sat_results) :
             \A j \in 1 .. Len(sat_results) : sat_results[i] = sat_results[j])

\* C11 witness: is_satisfied returned twice on an R1CS with two constraints,
\* one of which holds a copy that differs from the witness.
Wit_C11_TwoCalls ==
    /\ Len(sat_results) = 2 /\ Len(r1cs.constraints) = 2
    /\ sat_results[1] = TRUE /\ HasStaleTerm(r1cs)

\* ------------------------------------------------------------------ gate order claims
\* The value Hash gate i wrote into its out slot: the output term of its
\* constraint is cloned right after the write.
Written(i) == r1cs.constraints[i].output[1][1].value

\* The Hash gates before gate j that write wire x.
HashWriters(x, j) ==
    {i \in 1 .. (j - 1) : gates[i].op = "Hash" /\ gates[i].out = x}

MaxOf(S) == CHOOSE m \in S : \A n \in S : n <= m

\* The value of wire x when gate j is compiled, gates being compiled in
\* insertion order: the hash written by the last earlier Hash gate whose out
\* is x, or the input when there is none.
OpVal(x, j) ==
    IF HashWriters(x, j) = {} THEN inputs[x + 1]
    ELSE Written(MaxOf(HashWriters(x, j)))

\* C12: gates are compiled in insertion order, and a gate (Add, Mul or
\* Hash) that comes after a gate Hash(_, _, k) and reads wire k as a or b
\* operates on the value the earlier Hash gate wrote into slot k, not on the
\* value the slot had before compilation.
Cex_C12_ReadsWrittenValue ==
    pc = "validated" =>
        /\ Len(r1cs.constraints) = Len(gates)
        /\ \A j \in 1 .. Len(gates) :
              LET g == gates[j]
                  c == r1cs.constraints[j]
              IN  /\ c.operation = g.op
                  /\ (HashWriters(g.a, j) \cup HashWriters(g.b, j) # {}) =>
                        IF g.op = "Hash"
                        THEN Written(j) =
                                PoseidonHash_hash(OpVal(g.a, j), OpVal(g.b, j))
                        ELSE /\ c.left[1][1].value = OpVal(g.a, j)
                             /\ c.right[1][1].value = OpVal(g.b, j)

\* The part of C12 that concerns the check-only gates.
Aux_C12_CheckOnlyReadsWritten ==
    pc = "validated" =>
        /\ Len(r1cs.constraints) = Len(gates)
        /\ \A j \in 1 .. Len(gates) :
              LET g == gates[j]
                  c == r1cs.constraints[j]
              IN  /\ c.operation = g.op
                  /\ g.op # "Hash" =>
                        /\ c.left[1][1].value = OpVal(g.a, j)
                        /\ c.right[1][1].value = OpVal(g.b, j)

\* ------------------------------------------------------------------ shared out index
\* The Hash gates of the circuit whose out is wire k.
HashGatesOn(k) == {i \in 1 .. Len(gates) : gates[i].op = "Hash" /\ gates[i].out = k}

SharedOut(k) == Cardinality(HashGatesOn(k)) >= 2

\* The compile pass has run to its end: the loop is over, with or without
\* the validation that follows it.
EndOfPass == (pc = "compiling" /\ gi = Len(gates)) \/ pc = "validated"

\* computed_hash of Hash gate i, as the arm computes it.
ComputedHash(i) == PoseidonHash_hash(inputs[gates[i].a + 1], inputs[gates[i].b + 1])

\* C13: when two or more Hash gates name the same out index, the witness
\* slot out holds, at the end of the compile pass, the hash computed by the
\* last of those gates in insertion order; and a circuit with a hash
\* function whose gates are all over valid wire indices is compiled without
\* a panic although its Hash gates share an out index.
Thm_C13_LastWriteWins ==
    \A k \in WireIdx :
        SharedOut(k) =>
            /\ EndOfPass =>
                  /\ r1cs.variables[k + 1].value = ComputedHash(MaxOf(HashGatesOn(k)))
                  /\ r1cs.variables[k + 1].value = Written(MaxOf(HashGatesOn(k)))
            /\ ( /\ hash_function = "Poseidon"
                 /\ \A i \in 1 .. Len(gates) : GateValid(gates[i], Len(inputs)) )
               => pc # "panicked"

\* Two Hash gates share out, computed different hashes, and the pass ended
\* with the hash of the second in the slot.
Wit_C13_TwoWriters ==
    /\ pc = "validated" /\ Len(gates) = 2
    /\ \E k \in WireIdx :
          /\ HashGatesOn(k) = {1, 2}
          /\ ComputedHash(1) # ComputedHash(2)
          /\ r1cs.variables[k + 1].value = ComputedHash(2)
          /\ inputs[k + 1] # ComputedHash(2)

\* ------------------------------------------------------------------ compilation and the Circuit
\* The R1CS a generate_proof call starts from: one variable per input, in
\* order, holding the input's value, and no constraint.
FreshFrom(r, ins) ==
    /\ Len(r.variables) = Len(ins)
    /\ \A i \in 1 .. Len(ins) :
          r.variables[i].index = i - 1 /\ r.variables[i].value = ins[i]
    /\ r.constraints = <<>>

\* A step of generate_proof (entry, gate, validation or return) leaves
\* inputs, gates, outputs and the hash function as they are, and the entry
\* step builds the R1CS from the inputs present at that call.
C14Step ==
    /\ (pc # "idle" \/ pc' # "idle") => circuitVars' = circuitVars
    /\ (pc = "idle" /\ pc' = "compiling") => FreshFrom(r1cs', inputs)

\* Calls made on the same inputs and gates produced the same boolean.
SameCircuitSameBoolean ==
    \A i, j \in 1 .. Len(proof_log) :
        (proof_log[i][1] = proof_log[j][1] /\ proof_log[i][2] = proof_log[j][2])
            => proof_log[i][3] = proof_log[j][3]

\* C14: generate_proof never modifies the Circuit (inputs, gates and
\* outputs are unchanged by each of its steps, Hash-gate overwrites being
\* made in the R1CS only), in any sequence of add_input / add_gate /
\* add_output / generate_proof calls each generate_proof starts a new R1CS
\* from the inputs present at that call, and two calls with no add_input or
\* add_gate between them yield the same boolean.
Thm_C14_CircuitUntouched ==
    /\ [][C14Step]_vars
    /\ [](SameCircuitSameBoolean)

\* A second generate_proof call on the same inputs and gates has reached
\* its end, a Hash gate having overwritten a witness slot in both calls,
\* with an output registered on the Circuit.
Wit_C14_SecondCall ==
    /\ pc = "validated" /\ calls = 2 /\ Len(proof_log) = 2
    /\ proof_log[1][1] = inputs /\ proof_log[1][2] = gates
    /\ proof_log[2][1] = inputs /\ proof_log[2][2] = gates
    /\ HasHashGate
    /\ \E k \in 1 .. Len(inputs) : r1cs.variables[k].value # inputs[k]
    /\ outputs # <<>>

====
